---- MODULE Spec2Model ----
(***************************************************************************)
(* blocknote-mermaid: the Mermaid viewport component (src/lib/Mermaid.tsx,  *)
(* the component exported at the end of the file, lines 352-961) and the    *)
(* Mermaid block of the editor (src/lib/MermaidBlock.tsx).                  *)
(*                                                                          *)
(* Numbers.  zoom is a JavaScript number; it is kept here in fixed point,   *)
(* ZOOM_UNIT units per 1.0, so that 0.25, 0.05, 1 and 3 are exact.  The     *)
(* product of a pinch (prev * currentDistance / lastDist) is rounded down   *)
(* to the grid.  Pointer coordinates are integers (CSS pixels).             *)
(*                                                                          *)
(* Strings.  Text that the code trims (chart, data) is a sequence of        *)
(* tokens, each either a whitespace character or a word without             *)
(* whitespace; '' is << >>.  Other strings are TLA+ strings.                *)
(*                                                                          *)
(* React.  A state variable holds the value of the last setState call.      *)
(* What handlers read is the value captured by the last committed render:   *)
(* the closures of the useCallback handlers and, through the effect at      *)
(* lines 611-613, stateRef.current.  Both are the field stateRef.  Updates  *)
(* made in a discrete event (click, mousedown, mouseup, touchstart,         *)
(* touchend) are committed before the next event; updates made in a         *)
(* continuous event (mousemove, mouseleave, touchmove, wheel) are committed *)
(* by a later step, FlushUpdates.                                           *)
(***************************************************************************)
EXTENDS Integers, Sequences, FiniteSets, TLC

VARIABLES
    viewport,   \* [Viewports -> state of one Mermaid component instance]
    page,       \* what the instances share: the document and the module scope
    editor,     \* the BlockNote editor: its editability and its Mermaid block
    blockUI     \* the hooks of the block's render function

vars == <<viewport, page, editor, blockUI>>

-----------------------------------------------------------------------------
(* Bounds of the model *)

MaxPan == 4          \* |pan.x|, |pan.y| stay within this many pixels
MaxTouches == 2      \* longest e.touches delivered
MaxDownloads == 1    \* downloads recorded per page
MaxInFlight == 2     \* runs of the render effect with a mermaid call pending
MaxPending == 1      \* fullscreen requests, and fullscreenchange events, pending
MaxNow == 1          \* clock ticks of Date.now() after the first render
MaxRenderCounter == 3 \* largest value of the module's renderCounter

-----------------------------------------------------------------------------
(* Values *)

Viewports == {"v1", "v2"}

Min(a, b) == IF a <= b THEN a ELSE b
Max(a, b) == IF a >= b THEN a ELSE b
Abs(a) == IF a >= 0 THEN a ELSE -a

\* Math.sqrt on the squares the model produces (rounded down otherwise)
Sqrt(n) == CHOOSE r \in 0..n : r * r <= n /\ (r + 1) * (r + 1) > n

Pt(x, y) == [x |-> x, y |-> y]

\* pointer positions inside the diagram area: their distances are 0, 5, 10
Points == {Pt(0, 0), Pt(3, 4), Pt(6, 8)}

\* e.button: 0 is the left button
MouseEvents == {[button |-> b, clientX |-> p.x, clientY |-> p.y] :
                    b \in {0, 2}, p \in Points}

Touch(p) == [clientX |-> p.x, clientY |-> p.y]

\* e.touches: every touch on the surface, in the order the fingers came down
TouchLists == UNION {[1..n -> {Touch(p) : p \in Points}] : n \in 0..MaxTouches}

WheelEvents == [ctrlKey : BOOLEAN, deltaY : {-1, 0, 1}]

ZOOM_UNIT == 20
ZOOM_MIN == ZOOM_UNIT \div 4            \* 0.25
ZOOM_MAX == 3 * ZOOM_UNIT               \* 3
ZOOM_BUTTON_STEP == ZOOM_UNIT \div 4    \* 0.25
ZOOM_WHEEL_STEP == ZOOM_UNIT \div 20    \* 0.05

Whitespace == {" ", "\n", "\t"}

RECURSIVE TrimStart(_)
TrimStart(s) ==
    IF s # << >> /\ Head(s) \in Whitespace THEN TrimStart(Tail(s)) ELSE s

RECURSIVE TrimEnd(_)
TrimEnd(s) ==
    IF s # << >> /\ s[Len(s)] \in Whitespace
    THEN TrimEnd(SubSeq(s, 1, Len(s) - 1))
    ELSE s

\* String.prototype.trim
Trim(s) == TrimEnd(TrimStart(s))

\* the chart props the model passes to a viewport
Charts == {<< >>, <<" ">>, <<"graph">>, <<"pie">>}

\* the chart props a viewport is first rendered with
InitialCharts == {<< >>, <<"graph">>}

\* the name props: block ids, as sequences of characters
Names == {<< >>, <<"a", "-", "1">>, <<"a", "_", "1">>}

\* the name each viewport is first rendered with
InitialName(v) == IF v = "v1" THEN <<"a", "-", "1">> ELSE <<"a", "_", "1">>

AlphaNumeric == {"a", "1"}

\* name.replace(/[^a-zA-Z0-9]/g, '_')
Sanitize(name) ==
    [i \in DOMAIN name |-> IF name[i] \in AlphaNumeric THEN name[i] ELSE "_"]

\* the memoised id of an instance: a template string, kept as its characters
\* with each number as one token
uniqueId(name, renderCounter, now) ==
    <<"mermaid", "_">>
        \o (IF Sanitize(name) = << >> THEN <<"block">> ELSE Sanitize(name))
        \o <<"_", ToString(renderCounter), "_", ToString(now)>>

\* the element id handed to mermaid.render
renderId(id, now) == id \o <<"_", ToString(now)>>

-----------------------------------------------------------------------------
(* The viewport: state after the first render and its mount effects *)

\* what a render captures; zoom, also stored in stateRef.current, is read by
\* no handler and is left out
Snapshot(s) ==
    [isPinching |-> s.isPinching, isDragging |-> s.isDragging,
     lastPinchDistance |-> s.lastPinchDistance, pan |-> s.pan,
     dragStart |-> s.dragStart]

DisplayErrorFirst(s) ==
    IF s.error # "" THEN "error"
    ELSE IF Trim(s.chart) = << >> THEN "placeholder"
    ELSE "diagram"

\* which of the three returns of the component is on screen
Display(s) ==
    IF Trim(s.chart) = << >> THEN "placeholder"
    ELSE IF s.error # "" THEN "error"
    ELSE "diagram"

Displayed(s) == s.mounted /\ Display(s) = "diagram"

ToolbarShown(s) == Displayed(s) /\ s.showToolbar

\* the first run of the render effect, started at mount
FirstEffects(c) ==
    IF Trim(c) = << >> THEN << >>
    ELSE <<[chart |-> c, isMounted |-> TRUE, pc |-> "parse",
            renderId |-> << >>]>>

Mermaid(name, id, isMounted, c, toolbar) ==
    LET s0 == [mounted |-> isMounted, chart |-> c, showToolbar |-> toolbar,
               zoom |-> ZOOM_UNIT, pan |-> Pt(0, 0), isDragging |-> FALSE,
               dragStart |-> Pt(0, 0), isFullscreen |-> FALSE,
               isPinching |-> FALSE, lastPinchDistance |-> 0,
               svgContent |-> << >>, error |-> ""]
    IN  [mounted |-> isMounted, chart |-> c, showToolbar |-> toolbar,
         zoom |-> ZOOM_UNIT, pan |-> Pt(0, 0), isDragging |-> FALSE,
         dragStart |-> Pt(0, 0), isFullscreen |-> FALSE,
         isPinching |-> FALSE, lastPinchDistance |-> 0,
         svgContent |-> << >>, error |-> "",
         name |-> name, uniqueId |-> id,
         stateRef |-> Snapshot(s0),
         effects |-> IF isMounted THEN FirstEffects(c) ELSE << >>,
         listeners |-> isMounted /\ Display(s0) = "diagram"]

\* the commit of a render: closures and stateRef.current take the state
Commit(s) == [s EXCEPT !.stateRef = Snapshot(s)]

-----------------------------------------------------------------------------
(* Zoom buttons *)

handleZoomInUnclamped(s) == [s EXCEPT !.zoom = s.zoom + ZOOM_BUTTON_STEP]

handleZoomIn(s) == [s EXCEPT !.zoom = Min(s.zoom + ZOOM_BUTTON_STEP, ZOOM_MAX)]

handleZoomOut(s) == [s EXCEPT !.zoom = Max(s.zoom - ZOOM_BUTTON_STEP, ZOOM_MIN)]

handleResetViewZoomOnly(s) == [s EXCEPT !.zoom = ZOOM_UNIT]

handleResetView(s) == [s EXCEPT !.zoom = ZOOM_UNIT, !.pan = Pt(0, 0)]

(* Mouse panning *)

handleMouseDownIgnoringPan(s, e) ==
    IF e.button = 0
    THEN [s EXCEPT !.isDragging = TRUE, !.dragStart = Pt(e.clientX, e.clientY)]
    ELSE s

handleMouseDown(s, e) ==
    IF e.button = 0
    THEN [s EXCEPT !.isDragging = TRUE,
                   !.dragStart = Pt(e.clientX - s.stateRef.pan.x,
                                    e.clientY - s.stateRef.pan.y)]
    ELSE s

handleMouseMove(s, e) ==
    IF s.stateRef.isDragging
    THEN [s EXCEPT !.pan = Pt(e.clientX - s.stateRef.dragStart.x,
                              e.clientY - s.stateRef.dragStart.y)]
    ELSE s

handleMouseUp(s) == [s EXCEPT !.isDragging = FALSE]

(* Touch and wheel listeners of the diagram area *)

getTouchDistance(touches) ==
    IF Len(touches) < 2 THEN 0
    ELSE LET dx == touches[1].clientX - touches[2].clientX
             dy == touches[1].clientY - touches[2].clientY
         IN  Sqrt(dx * dx + dy * dy)

handleTouchStart(s, touches) ==
    IF Len(touches) = 2
    THEN [s EXCEPT !.isPinching = TRUE,
                   !.lastPinchDistance = getTouchDistance(touches)]
    ELSE IF Len(touches) = 1
    THEN [s EXCEPT !.isDragging = TRUE,
                   !.dragStart = Pt(touches[1].clientX - s.stateRef.pan.x,
                                    touches[1].clientY - s.stateRef.pan.y)]
    ELSE s

PinchZoomUnclamped(prev, currentDistance, lastDist) ==
    (prev * currentDistance) \div lastDist

\* setZoom(prev => clamp(prev * scale)), scale = currentDistance / lastDist
PinchZoom(prev, currentDistance, lastDist) ==
    Min(Max((prev * currentDistance) \div lastDist, ZOOM_MIN), ZOOM_MAX)

handleTouchMove(s, touches) ==
    LET pinching == s.stateRef.isPinching
        dragging == s.stateRef.isDragging
        lastDist == s.stateRef.lastPinchDistance
        start == s.stateRef.dragStart
    IN  IF pinching /\ Len(touches) = 2
        THEN LET currentDistance == getTouchDistance(touches)
             IN  [s EXCEPT !.zoom = IF lastDist > 0
                                    THEN PinchZoom(s.zoom, currentDistance, lastDist)
                                    ELSE s.zoom,
                           !.lastPinchDistance = currentDistance]
        ELSE IF dragging /\ Len(touches) = 1
        THEN [s EXCEPT !.pan = Pt(touches[1].clientX - start.x,
                                  touches[1].clientY - start.y)]
        ELSE s

handleTouchEndKeepingDrag(s, touches) ==
    IF Len(touches) < 2
    THEN [s EXCEPT !.isPinching = FALSE, !.lastPinchDistance = 0]
    ELSE s

handleTouchEnd(s, touches) ==
    LET s1 == IF Len(touches) < 2
              THEN [s EXCEPT !.isPinching = FALSE, !.lastPinchDistance = 0]
              ELSE s
    IN  IF Len(touches) = 0 THEN [s1 EXCEPT !.isDragging = FALSE] ELSE s1

handleWheelAnyKey(s, e) ==
    LET delta == IF e.deltaY > 0 THEN -ZOOM_WHEEL_STEP ELSE ZOOM_WHEEL_STEP
    IN  [s EXCEPT !.zoom = Min(Max(s.zoom + delta, ZOOM_MIN), ZOOM_MAX)]

handleWheel(s, e) ==
    IF e.ctrlKey
    THEN LET delta == IF e.deltaY > 0 THEN -ZOOM_WHEEL_STEP ELSE ZOOM_WHEEL_STEP
         IN  [s EXCEPT !.zoom = Min(Max(s.zoom + delta, ZOOM_MIN), ZOOM_MAX)]
    ELSE s

-----------------------------------------------------------------------------
(* Steps of one viewport *)

PanInBounds(s) == Abs(s.pan.x) <= MaxPan /\ Abs(s.pan.y) <= MaxPan

SetViewport(v, s) ==
    /\ PanInBounds(s)
    /\ viewport' = [viewport EXCEPT ![v] = s]

ZoomIn(v) ==
    /\ ToolbarShown(viewport[v])
    /\ SetViewport(v, Commit(handleZoomIn(viewport[v])))
    /\ UNCHANGED page
    /\ UNCHANGED <<editor, blockUI>>

ZoomOut(v) ==
    /\ ToolbarShown(viewport[v])
    /\ SetViewport(v, Commit(handleZoomOut(viewport[v])))
    /\ UNCHANGED page
    /\ UNCHANGED <<editor, blockUI>>

ResetView(v) ==
    /\ ToolbarShown(viewport[v])
    /\ SetViewport(v, Commit(handleResetView(viewport[v])))
    /\ UNCHANGED page
    /\ UNCHANGED <<editor, blockUI>>

MouseDown(v) ==
    /\ ToolbarShown(viewport[v])
    /\ \E e \in MouseEvents :
           SetViewport(v, Commit(handleMouseDown(viewport[v], e)))
    /\ UNCHANGED page
    /\ UNCHANGED <<editor, blockUI>>

MouseMove(v) ==
    /\ ToolbarShown(viewport[v])
    /\ \E e \in MouseEvents : SetViewport(v, handleMouseMove(viewport[v], e))
    /\ UNCHANGED page
    /\ UNCHANGED <<editor, blockUI>>

MouseUp(v) ==
    /\ ToolbarShown(viewport[v])
    /\ SetViewport(v, Commit(handleMouseUp(viewport[v])))
    /\ UNCHANGED page
    /\ UNCHANGED <<editor, blockUI>>

MouseLeave(v) ==
    /\ ToolbarShown(viewport[v])
    /\ SetViewport(v, handleMouseUp(viewport[v]))
    /\ UNCHANGED page
    /\ UNCHANGED <<editor, blockUI>>

ListenersLive(s) == Displayed(s) /\ s.listeners

TouchStart(v) ==
    /\ ListenersLive(viewport[v])
    /\ \E touches \in TouchLists :
           /\ Len(touches) >= 1
           /\ SetViewport(v, Commit(handleTouchStart(viewport[v], touches)))
    /\ UNCHANGED page
    /\ UNCHANGED <<editor, blockUI>>

TouchMove(v) ==
    /\ ListenersLive(viewport[v])
    /\ \E touches \in TouchLists :
           /\ Len(touches) >= 1
           /\ SetViewport(v, handleTouchMove(viewport[v], touches))
    /\ UNCHANGED page
    /\ UNCHANGED <<editor, blockUI>>

TouchEnd(v) ==
    /\ ListenersLive(viewport[v])
    /\ \E touches \in TouchLists :
           /\ Len(touches) < MaxTouches
           /\ SetViewport(v, Commit(handleTouchEnd(viewport[v], touches)))
    /\ UNCHANGED page
    /\ UNCHANGED <<editor, blockUI>>

Wheel(v) ==
    /\ ListenersLive(viewport[v])
    /\ \E e \in WheelEvents : SetViewport(v, handleWheel(viewport[v], e))
    /\ UNCHANGED page
    /\ UNCHANGED <<editor, blockUI>>

\* the render React schedules for continuous-priority updates, with its effects
FlushUpdates(v) ==
    /\ viewport[v].mounted
    /\ viewport[v].stateRef # Snapshot(viewport[v])
    /\ SetViewport(v, Commit(viewport[v]))
    /\ UNCHANGED page
    /\ UNCHANGED <<editor, blockUI>>

\* input that changes the zoom factor
ZoomStep(v) ==
    \/ ZoomIn(v) \/ ZoomOut(v) \/ ResetView(v) \/ Wheel(v)
    \/ TouchStart(v) \/ TouchMove(v) \/ TouchEnd(v)
    \/ FlushUpdates(v)

\* pointer input: mouse and touch gestures
PointerStep(v) ==
    \/ MouseDown(v) \/ MouseMove(v) \/ MouseUp(v) \/ MouseLeave(v)
    \/ TouchStart(v) \/ TouchMove(v) \/ TouchEnd(v)
    \/ ResetView(v) \/ FlushUpdates(v)

-----------------------------------------------------------------------------
(* The render effect (useEffect on [chart, uniqueId]) *)

INVALID_MERMAID_CODE == "Invalid mermaid code!"
ERROR_RENDERING == "Error rendering mermaid diagram"

\* the svg mermaid.render returns for a chart: never empty
SvgOf(c) == <<"<svg>">> \o c

\* what the awaited mermaid calls can answer, whatever the chart
ParseOutcomes == {"valid", "invalid", "throw"}
RenderOutcomes == {"svg", "throw"}

RemoveAt(seq, i) == SubSeq(seq, 1, i - 1) \o SubSeq(seq, i + 1, Len(seq))

CleanupNothing(effects) == effects

\* the effect's cleanup: isMounted = false in the closure of each earlier run
Cleanup(effects) ==
    [i \in DOMAIN effects |-> [effects[i] EXCEPT !.isMounted = FALSE]]

\* the diagram area keeps its listeners only while it stays on screen: the
\* effect that attaches them (deps [getTouchDistance]) runs at mount alone
Rerender(prev, next) ==
    [next EXCEPT !.listeners = prev.listeners /\ Displayed(next)]

\* renderChart up to its first await
renderChart(s, c) ==
    IF Trim(c) = << >>
    THEN [s EXCEPT !.svgContent = << >>, !.error = ""]
    ELSE [s EXCEPT !.effects =
              Append(@, [chart |-> c, isMounted |-> TRUE, pc |-> "parse",
                         renderId |-> << >>])]

\* the chart prop changes: cleanup of the previous run, then a new run
chartEffect(s, c) ==
    Rerender(s, renderChart([s EXCEPT !.chart = c,
                                      !.effects = Cleanup(s.effects)], c))

setErrorKeepingSvg(s, isMounted, msg) ==
    IF isMounted THEN [s EXCEPT !.error = msg] ELSE s

setError(s, isMounted, msg) ==
    IF isMounted THEN [s EXCEPT !.error = msg, !.svgContent = << >>] ELSE s

\* renderChart after await mermaid.parse
afterParse(s, i, outcome) ==
    LET run == s.effects[i]
        done == [s EXCEPT !.effects = RemoveAt(@, i)]
    IN  IF outcome = "throw"
        THEN Rerender(s, setError(done, run.isMounted, ERROR_RENDERING))
        ELSE IF outcome = "invalid"
        THEN Rerender(s, setError(done, run.isMounted, INVALID_MERMAID_CODE))
        ELSE [s EXCEPT !.effects[i].pc = "render",
                       !.effects[i].renderId = renderId(s.uniqueId, page.now)]

afterRenderUnguarded(s, i, outcome) ==
    LET run == s.effects[i]
        done == [s EXCEPT !.effects = RemoveAt(@, i)]
    IN  IF outcome = "throw"
        THEN Rerender(s, setError(done, run.isMounted, ERROR_RENDERING))
        ELSE Rerender(s, [done EXCEPT !.svgContent = SvgOf(run.chart),
                                      !.error = ""])

afterRenderKeepingError(s, i, outcome) ==
    LET run == s.effects[i]
        done == [s EXCEPT !.effects = RemoveAt(@, i)]
    IN  IF outcome = "throw"
        THEN Rerender(s, setError(done, run.isMounted, ERROR_RENDERING))
        ELSE IF SvgOf(run.chart) # << >> /\ run.isMounted
        THEN Rerender(s, [done EXCEPT !.svgContent = SvgOf(run.chart)])
        ELSE done

\* renderChart after await mermaid.render
afterRender(s, i, outcome) ==
    LET run == s.effects[i]
        done == [s EXCEPT !.effects = RemoveAt(@, i)]
    IN  IF outcome = "throw"
        THEN Rerender(s, setError(done, run.isMounted, ERROR_RENDERING))
        ELSE IF SvgOf(run.chart) # << >> /\ run.isMounted
        THEN Rerender(s, [done EXCEPT !.svgContent = SvgOf(run.chart),
                                      !.error = ""])
        ELSE done

\* the component unmounts: every effect's cleanup runs
unmount(s) ==
    [s EXCEPT !.mounted = FALSE, !.effects = Cleanup(s.effects),
              !.listeners = FALSE]

\* an element that leaves the document while it is the fullscreen element
\* ends fullscreen, and the document gets a fullscreenchange event
PageAfter(v, s) ==
    IF page.fullscreenElement = v /\ ~Displayed(s)
    THEN [page EXCEPT !.fullscreenElement = "none", !.events = @ + 1]
    ELSE page

SetPage(p) ==
    /\ p.events <= MaxPending
    /\ page' = p

ChartChange(v) ==
    /\ viewport[v].mounted
    /\ \E c \in Charts \ {viewport[v].chart} :
           LET s == chartEffect(viewport[v], c)
           IN  /\ Len(s.effects) <= MaxInFlight
               /\ SetViewport(v, s)
               /\ SetPage(PageAfter(v, s))
    /\ UNCHANGED <<editor, blockUI>>

ParseDone(v) ==
    /\ \E i \in DOMAIN viewport[v].effects, outcome \in ParseOutcomes :
           /\ viewport[v].effects[i].pc = "parse"
           /\ LET s == afterParse(viewport[v], i, outcome)
              IN  SetViewport(v, s) /\ SetPage(PageAfter(v, s))
    /\ UNCHANGED <<editor, blockUI>>

RenderDone(v) ==
    /\ \E i \in DOMAIN viewport[v].effects, outcome \in RenderOutcomes :
           /\ viewport[v].effects[i].pc = "render"
           /\ LET s == afterRender(viewport[v], i, outcome)
              IN  SetViewport(v, s) /\ SetPage(PageAfter(v, s))
    /\ UNCHANGED <<editor, blockUI>>

Unmount(v) ==
    /\ viewport[v].mounted
    /\ LET s == unmount(viewport[v])
       IN  SetViewport(v, s) /\ SetPage(PageAfter(v, s))
    /\ UNCHANGED <<editor, blockUI>>

\* the name prop changes: useMemo computes a new uniqueId, and the render
\* effect, which depends on it, runs again
nameEffect(s, name, renderCounter, now) ==
    chartEffect([s EXCEPT !.name = name,
                          !.uniqueId = uniqueId(name, renderCounter, now)],
                s.chart)

NameChange(v) ==
    /\ viewport[v].mounted
    /\ page.renderCounter < MaxRenderCounter
    /\ \E name \in Names \ {viewport[v].name} :
           LET s == nameEffect(viewport[v], name, page.renderCounter + 1,
                               page.now)
           IN  /\ Len(s.effects) <= MaxInFlight
               /\ SetViewport(v, s)
               /\ SetPage([PageAfter(v, s) EXCEPT !.renderCounter = @ + 1])
    /\ UNCHANGED <<editor, blockUI>>

\* Date.now() moves on
Tick ==
    /\ page.now < MaxNow
    /\ page' = [page EXCEPT !.now = @ + 1]
    /\ UNCHANGED viewport
    /\ UNCHANGED <<editor, blockUI>>

-----------------------------------------------------------------------------
(* Download as SVG *)

Blob(content) == [type |-> "image/svg+xml", content |-> content]

handleDownloadUnchecked(s, downloads) ==
    Append(downloads, Blob(s.svgContent))

\* the files the page has saved, after a click on Download
handleDownload(s, downloads) ==
    IF s.svgContent = << >> THEN downloads
    ELSE Append(downloads, Blob(s.svgContent))

Download(v) ==
    /\ ToolbarShown(viewport[v])
    /\ LET d == handleDownload(viewport[v], page.downloads)
       IN  /\ Len(d) <= MaxDownloads
           /\ page' = [page EXCEPT !.downloads = d]
    /\ UNCHANGED viewport
    /\ UNCHANGED <<editor, blockUI>>

-----------------------------------------------------------------------------
(* Fullscreen *)

\* the click handler: the state it sets, and the request it makes
handleFullscreen(s, fullscreenElement) ==
    [s EXCEPT !.isFullscreen = (fullscreenElement = "none")]

fullscreenRequest(v, fullscreenElement) ==
    IF fullscreenElement # "none" THEN [kind |-> "exit", by |-> v]
    ELSE [kind |-> "enter", by |-> v]

\* the fullscreenchange listener each mounted instance has on the document
handleFullscreenChange(s, fullscreenElement) ==
    IF s.mounted THEN [s EXCEPT !.isFullscreen = (fullscreenElement # "none")]
    ELSE s

Fullscreen(v) ==
    /\ ToolbarShown(viewport[v])
    /\ Len(page.requests) < MaxPending
    /\ SetViewport(v, Commit(handleFullscreen(viewport[v], page.fullscreenElement)))
    /\ page' = [page EXCEPT !.requests =
                    Append(@, fullscreenRequest(v, page.fullscreenElement))]
    /\ UNCHANGED <<editor, blockUI>>

\* the browser carries out the oldest request
RequestGranted ==
    /\ page.requests # << >>
    /\ LET r == Head(page.requests)
           rest == [page EXCEPT !.requests = Tail(@)]
       IN  IF r.kind = "enter" /\ Displayed(viewport[r.by])
           THEN SetPage([rest EXCEPT !.fullscreenElement = r.by, !.events = @ + 1])
           ELSE IF r.kind = "exit" /\ page.fullscreenElement # "none"
           THEN SetPage([rest EXCEPT !.fullscreenElement = "none", !.events = @ + 1])
           ELSE SetPage(rest)
    /\ UNCHANGED viewport
    /\ UNCHANGED <<editor, blockUI>>

\* the browser refuses it (no permission, not allowed in this frame): the
\* promise rejects and a fullscreenerror event fires, which nothing handles
RequestRefused ==
    /\ page.requests # << >>
    /\ SetPage([page EXCEPT !.requests = Tail(@)])
    /\ UNCHANGED viewport
    /\ UNCHANGED <<editor, blockUI>>

\* the user leaves fullscreen with Escape
EscapeFullscreen ==
    /\ page.fullscreenElement # "none"
    /\ SetPage([page EXCEPT !.fullscreenElement = "none", !.events = @ + 1])
    /\ UNCHANGED viewport
    /\ UNCHANGED <<editor, blockUI>>

\* one fullscreenchange event reaches the document's listeners
FullscreenChange ==
    /\ page.events > 0
    /\ viewport' = [v \in Viewports |->
                       Commit(handleFullscreenChange(viewport[v],
                                                     page.fullscreenElement))]
    /\ page' = [page EXCEPT !.events = @ - 1]
    /\ UNCHANGED <<editor, blockUI>>

BrowserStep ==
    \/ RequestGranted \/ RequestRefused \/ EscapeFullscreen \/ FullscreenChange

\* the life of one instance besides pointer input
PageStep(v) ==
    \/ ChartChange(v) \/ ParseDone(v) \/ RenderDone(v) \/ Unmount(v)
    \/ Download(v) \/ Fullscreen(v)

-----------------------------------------------------------------------------
(* The Mermaid block (MermaidBlock.tsx) *)

TYPE == "mermaid"

DEFAULT_MERMAID_CODE ==
    <<"flowchart", " ", "TD", "\n",
      " ", " ", " ", " ", "A[Start]", " ", "-->", " ", "B{Is", " ", "it?}", "\n",
      " ", " ", " ", " ", "B", " ", "-->|Yes|", " ", "C[OK]", "\n",
      " ", " ", " ", " ", "B", " ", "-->|No|", " ", "D[End]">>

mermaidPropSchemaCollapsed ==
    [backgroundColor |-> [default |-> "default"],
     textColor |-> [default |-> "default"],
     textAlignment |-> [default |-> "left"],
     data |-> [default |-> DEFAULT_MERMAID_CODE],
     title |-> [default |-> "Untitled Diagram"],
     collapsed |-> [default |-> "true"],
     locked |-> [default |-> "false"]]

\* ...defaultProps of @blocknote/core, then the four props of the block
mermaidPropSchema ==
    [backgroundColor |-> [default |-> "default"],
     textColor |-> [default |-> "default"],
     textAlignment |-> [default |-> "left"],
     data |-> [default |-> DEFAULT_MERMAID_CODE],
     title |-> [default |-> "Untitled Diagram"],
     collapsed |-> [default |-> "false"],
     locked |-> [default |-> "false"]]

\* the props of a block created with no props given
DefaultProps(schema) == [k \in DOMAIN schema |-> schema[k].default]

\* MERMAID_EXAMPLES (example.ts); of each code the text up to the first
\* line break is kept, the rest of it is the one word "..."
MERMAID_EXAMPLES ==
    <<[name |-> "Sequence Diagram", category |-> "Flow",
       code |-> <<"sequenceDiagram", "\n", "...">>],
      [name |-> "Flowchart", category |-> "Flow",
       code |-> <<"flowchart", " ", "TD", "\n", "...">>],
      [name |-> "Class Diagram", category |-> "Structure",
       code |-> <<"classDiagram", "\n", "...">>],
      [name |-> "State Diagram", category |-> "Flow",
       code |-> <<"stateDiagram-v2", "\n", "...">>],
      [name |-> "Entity Relationship", category |-> "Structure",
       code |-> <<"erDiagram", "\n", "...">>],
      [name |-> "Gantt Chart", category |-> "Timeline",
       code |-> <<"gantt", "\n", "...">>],
      [name |-> "User Journey", category |-> "Flow",
       code |-> <<"journey", "\n", "...">>],
      [name |-> "Git Graph", category |-> "Timeline",
       code |-> <<"gitGraph", "\n", "...">>],
      [name |-> "Pie Chart", category |-> "Charts",
       code |-> <<"pie", " ", "title", " ", "Pets", "\n", "...">>],
      [name |-> "Mind Map", category |-> "Structure",
       code |-> <<"mindmap", "\n", "...">>],
      [name |-> "Quadrant Chart", category |-> "Charts",
       code |-> <<"quadrantChart", "\n", "...">>],
      [name |-> "XY Chart", category |-> "Charts",
       code |-> <<"\n", " ", "xychart-beta", "\n", "...">>]>>

\* Object.keys(examplesByCategory)
categories == {MERMAID_EXAMPLES[i].category : i \in DOMAIN MERMAID_EXAMPLES}

\* selectedCategory === null
Null == "<null>"

\* what the user types into the code editor and into the title input
CodeInputs == {<< >>, <<"graph", " ", "TD">>, <<" ", "pie", "\n">>}
TitleInputs == {"", "My diagram"}

NoBlock == [id |-> "", type |-> "none", props |-> DefaultProps(mermaidPropSchema)]

HasBlock(e) == e.block.type = TYPE

\* insertMermaid().onItemClick: insertOrUpdateBlock(editor, { type: TYPE })
insertMermaid(e) ==
    [e EXCEPT !.block = [id |-> "b1", type |-> TYPE,
                         props |-> DefaultProps(mermaidPropSchema)]]

\* editor.updateBlock(block, { props }): the given props replace the block's
updateBlock(e, props) ==
    [e EXCEPT !.block.props =
        [k \in DOMAIN @ |-> IF k \in DOMAIN props THEN props[k] ELSE @[k]]]

\* the render function's first render of a block
MermaidBlock(e) ==
    [block |-> e.block, isReadOnly |-> ~e.isEditable, showEditor |-> TRUE,
     showExamples |-> FALSE, selectedCategory |-> Null,
     isEditingTitle |-> FALSE]

\* a later render: the closures take the editor's block; the memo stays
render(e, ui) == [ui EXCEPT !.block = e.block]

isLocked(ui) == ui.block.props.locked = "true"
isCollapsed(ui) == ui.block.props.collapsed = "true"

onInputChange(e, ui, val) ==
    updateBlock(e, [ui.block.props EXCEPT !.data = val])

onTitleChangeFromDefaults(e, ui, val) ==
    updateBlock(e, [DefaultProps(mermaidPropSchema) EXCEPT !.title = val])

onTitleChange(e, ui, val) ==
    updateBlock(e, [ui.block.props EXCEPT !.title = val])

toggleLock(e, ui) ==
    updateBlock(e, [ui.block.props EXCEPT
                        !.locked = IF isLocked(ui) THEN "false" ELSE "true"])

toggleCollapseOneWay(e, ui) ==
    updateBlock(e, [ui.block.props EXCEPT !.collapsed = "true"])

toggleCollapse(e, ui) ==
    updateBlock(e, [ui.block.props EXCEPT
                        !.collapsed = IF isCollapsed(ui) THEN "false" ELSE "true"])

\* what the render function returns: the parts of the block on screen
CollapsedView(ui) == isCollapsed(ui)
TitleSection(ui) == ~isCollapsed(ui) /\ ~ui.isReadOnly
Toolbar(ui) == ~isCollapsed(ui) /\ ~ui.isReadOnly
ToolbarEditButtons(ui) == Toolbar(ui) /\ ~isLocked(ui)
ExamplesSection(ui) ==
    ~isCollapsed(ui) /\ ~ui.isReadOnly /\ ~isLocked(ui) /\ ui.showExamples
CodeEditorWhenLocked(ui) ==
    ~isCollapsed(ui) /\ ~ui.isReadOnly /\ ui.showEditor

CodeEditor(ui) ==
    ~isCollapsed(ui) /\ ~ui.isReadOnly /\ ~isLocked(ui) /\ ui.showEditor
Preview(ui) == ~isCollapsed(ui)

\* the props the block gives its viewport
MermaidProps(ui) ==
    [name |-> ui.block.id, chart |-> Trim(ui.block.props.data),
     isResizable |-> ~ui.isReadOnly /\ ~isLocked(ui),
     showToolbar |-> ~ui.isReadOnly]

\* the example cards on screen
ExampleCards(ui) ==
    {i \in DOMAIN MERMAID_EXAMPLES :
        ui.selectedCategory = Null
            \/ MERMAID_EXAMPLES[i].category = ui.selectedCategory}

\* an event handler has run: the editor re-renders the block before the next
SetBlock(e, ui) ==
    /\ editor' = e
    /\ blockUI' = render(e, ui)

InsertMermaid ==
    /\ ~HasBlock(editor)
    /\ editor.isEditable
    /\ editor' = insertMermaid(editor)
    /\ blockUI' = MermaidBlock(editor')
    /\ UNCHANGED <<viewport, page>>

\* the application switches the editor between editable and read-only: the
\* editor object is the same, so a render after it finds the memo unchanged
SetEditable ==
    /\ SetBlock([editor EXCEPT !.isEditable = ~@], blockUI)
    /\ UNCHANGED <<viewport, page>>

\* the block's component mounts anew (the document is opened again, the node
\* view is re-created): useMemo and useState start over
MountBlock ==
    /\ HasBlock(editor)
    /\ editor' = editor
    /\ blockUI' = MermaidBlock(editor)
    /\ UNCHANGED <<viewport, page>>

ClickCollapsedBar ==
    /\ HasBlock(editor) /\ CollapsedView(blockUI)
    /\ SetBlock(toggleCollapse(editor, blockUI), blockUI)
    /\ UNCHANGED <<viewport, page>>

ClickCollapse ==
    /\ HasBlock(editor) /\ TitleSection(blockUI)
    /\ SetBlock(toggleCollapse(editor, blockUI), blockUI)
    /\ UNCHANGED <<viewport, page>>

ClickTitle ==
    /\ HasBlock(editor) /\ TitleSection(blockUI) /\ ~blockUI.isEditingTitle
    /\ SetBlock(editor, IF ~isLocked(blockUI)
                        THEN [blockUI EXCEPT !.isEditingTitle = TRUE]
                        ELSE blockUI)
    /\ UNCHANGED <<viewport, page>>

TitleInput ==
    /\ HasBlock(editor) /\ TitleSection(blockUI) /\ blockUI.isEditingTitle
    /\ \E val \in TitleInputs :
           SetBlock(onTitleChange(editor, blockUI, val), blockUI)
    /\ UNCHANGED <<viewport, page>>

TitleBlur ==
    /\ HasBlock(editor) /\ TitleSection(blockUI) /\ blockUI.isEditingTitle
    /\ SetBlock(editor, [blockUI EXCEPT !.isEditingTitle = FALSE])
    /\ UNCHANGED <<viewport, page>>

TitleKeyDown ==
    /\ HasBlock(editor) /\ TitleSection(blockUI) /\ blockUI.isEditingTitle
    /\ \E key \in {"Enter", "a"} :
           SetBlock(editor, IF key = "Enter"
                            THEN [blockUI EXCEPT !.isEditingTitle = FALSE]
                            ELSE blockUI)
    /\ UNCHANGED <<viewport, page>>

ToggleEditor ==
    /\ HasBlock(editor) /\ ToolbarEditButtons(blockUI)
    /\ SetBlock(editor, [blockUI EXCEPT !.showEditor = ~@])
    /\ UNCHANGED <<viewport, page>>

ToggleExamples ==
    /\ HasBlock(editor) /\ ToolbarEditButtons(blockUI)
    /\ SetBlock(editor, [blockUI EXCEPT !.showExamples = ~@])
    /\ UNCHANGED <<viewport, page>>

ClickLock ==
    /\ HasBlock(editor) /\ Toolbar(blockUI)
    /\ SetBlock(toggleLock(editor, blockUI), blockUI)
    /\ UNCHANGED <<viewport, page>>

SelectCategory ==
    /\ HasBlock(editor) /\ ExamplesSection(blockUI)
    /\ \E cat \in {Null} \cup categories :
           SetBlock(editor, [blockUI EXCEPT !.selectedCategory = cat])
    /\ UNCHANGED <<viewport, page>>

ClickExample ==
    /\ HasBlock(editor) /\ ExamplesSection(blockUI)
    /\ \E i \in ExampleCards(blockUI) :
           SetBlock(onInputChange(editor, blockUI, MERMAID_EXAMPLES[i].code),
                    [blockUI EXCEPT !.showExamples = FALSE])
    /\ UNCHANGED <<viewport, page>>

CodeInput ==
    /\ HasBlock(editor) /\ CodeEditor(blockUI)
    /\ \E val \in CodeInputs :
           SetBlock(onInputChange(editor, blockUI, val), blockUI)
    /\ UNCHANGED <<viewport, page>>

BlockStep ==
    \/ InsertMermaid \/ MountBlock \/ SetEditable
    \/ ClickCollapsedBar \/ ClickCollapse
    \/ ClickTitle \/ TitleInput \/ TitleBlur \/ TitleKeyDown
    \/ ToggleEditor \/ ToggleExamples \/ ClickLock
    \/ SelectCategory \/ ClickExample \/ CodeInput

-----------------------------------------------------------------------------

\* both instances have been rendered once, at time 0: renderCounter is 2
InitPage ==
    [downloads |-> << >>, fullscreenElement |-> "none", requests |-> << >>,
     events |-> 0, renderCounter |-> 2, now |-> 0]

InitialId(v) == uniqueId(InitialName(v), IF v = "v1" THEN 1 ELSE 2, 0)

InitEditor == [isEditable |-> TRUE, block |-> NoBlock]

InitBlock ==
    /\ editor = InitEditor
    /\ blockUI = MermaidBlock(InitEditor)

\* a page with one viewport mounted; the other never mounts
Init ==
    /\ \E c \in InitialCharts, t \in BOOLEAN :
           viewport = [v \in Viewports |->
                          IF v = "v1"
                          THEN Mermaid(InitialName(v), InitialId(v), TRUE, c, t)
                          ELSE Mermaid(InitialName(v), InitialId(v), FALSE,
                                       << >>, TRUE)]
    /\ page = InitPage
    /\ InitBlock

\* a page with two viewports mounted
InitTwo ==
    /\ viewport = [v \in Viewports |->
                      Mermaid(InitialName(v), InitialId(v), TRUE, <<"graph">>,
                              TRUE)]
    /\ page = InitPage
    /\ InitBlock

ViewportStep(v) ==
    \/ ZoomIn(v) \/ ZoomOut(v) \/ ResetView(v) \/ Wheel(v)
    \/ MouseDown(v) \/ MouseMove(v) \/ MouseUp(v) \/ MouseLeave(v)
    \/ TouchStart(v) \/ TouchMove(v) \/ TouchEnd(v)
    \/ FlushUpdates(v)
    \/ PageStep(v)
    \/ NameChange(v)

Next ==
    \/ \E v \in Viewports : ViewportStep(v)
    \/ BrowserStep
    \/ BlockStep
    \/ Tick

Spec == Init /\ [][Next]_vars

(* The same program, driven by one kind of input at a time *)

NextZoom == \E v \in Viewports : ZoomStep(v)

SpecZoom == Init /\ [][NextZoom]_vars

NextPointer == \E v \in Viewports : PointerStep(v)

SpecPointer == Init /\ [][NextPointer]_vars

\* the render effect alone
RenderStep(v) == ChartChange(v) \/ ParseDone(v) \/ RenderDone(v) \/ Unmount(v)

NextRender == \E v \in Viewports : RenderStep(v)

SpecRender == Init /\ [][NextRender]_vars

NextPage == (\E v \in Viewports : PageStep(v)) \/ BrowserStep

SpecPage == Init /\ [][NextPage]_vars

NextBlock == BlockStep

SpecBlock == Init /\ [][NextBlock]_vars

\* two viewports on one page, all the input going to the first
InputTo(v) ==
    \/ ZoomIn(v) \/ ZoomOut(v) \/ ResetView(v) \/ Fullscreen(v)
    \/ ChartChange(v)

NextTwo ==
    \/ InputTo("v1")
    \/ \E v \in Viewports : ParseDone(v) \/ RenderDone(v)
    \/ BrowserStep

SpecTwo == InitTwo /\ [][NextTwo]_vars

\* two viewports while the clock runs, the chart and the name of the first
\* changing
IdStep(v) == ChartChange(v) \/ NameChange(v)

NextIds ==
    \/ IdStep("v1")
    \/ \E v \in Viewports : ParseDone(v) \/ RenderDone(v)
    \/ Tick

SpecIds == InitTwo /\ [][NextIds]_vars

\* the effect steps of every viewport: the awaited mermaid calls complete
EffectStep == \E v \in Viewports : ParseDone(v) \/ RenderDone(v)

FairSpecRender == SpecRender /\ WF_vars(EffectStep)

-----------------------------------------------------------------------------
(* Properties *)

\* C1: whatever the sequence of Zoom In, Zoom Out, Reset View, ctrl+wheel and
\* pinch input, the zoom factor of every viewport stays within [0.25, 3].
C1_ZoomWithinBounds ==
    \A v \in Viewports :
        ZOOM_MIN <= viewport[v].zoom /\ viewport[v].zoom <= ZOOM_MAX

\* a pinch that spread the fingers to twice their distance, stopped at 3
C1_Witness ==
    /\ viewport["v1"].isPinching
    /\ viewport["v1"].lastPinchDistance = 10
    /\ viewport["v1"].zoom = ZOOM_MAX

\* C2: while the block's locked prop is "true" the code editor and the
\* template panel are not on screen, and no step of the block UI changes the
\* data prop.
C2_LockedKeepsData ==
    /\ [](HasBlock(editor) /\ editor.block.props.locked = "true"
            => ~CodeEditor(blockUI) /\ ~ExamplesSection(blockUI))
    /\ [][HasBlock(editor) /\ editor.block.props.locked = "true"
            => editor'.block.props.data = editor.block.props.data]_vars

\* a locked, expanded block whose editor and template panel were both open
C2_Witness ==
    /\ HasBlock(editor)
    /\ editor.block.props.locked = "true"
    /\ editor.block.props.collapsed = "false"
    /\ ~blockUI.isReadOnly /\ blockUI.showEditor /\ blockUI.showExamples
    /\ editor.block.props.data # DEFAULT_MERMAID_CODE

\* C3: a run of the render effect that a mounted viewport holds for its chart
\* ends, when mermaid.parse answers invalid, with error "Invalid mermaid
\* code!" and an empty svgContent, and when parse or render throws, with error
\* "Error rendering mermaid diagram" and an empty svgContent; the error panel
\* is then on screen; and error is never anything but '' or one of the two.
C3_ErrorOutcomes ==
    \A v \in Viewports :
        LET s == viewport[v]
        IN  /\ s.error \in {"", INVALID_MERMAID_CODE, ERROR_RENDERING}
            /\ \A i \in DOMAIN s.effects :
                  s.mounted /\ s.effects[i].isMounted =>
                    /\ Trim(s.chart) # << >>
                    /\ s.effects[i].pc = "parse" =>
                         LET invalid == afterParse(s, i, "invalid")
                             thrown == afterParse(s, i, "throw")
                         IN  /\ invalid.error = "Invalid mermaid code!"
                             /\ invalid.svgContent = << >>
                             /\ Display(invalid) = "error"
                             /\ thrown.error = "Error rendering mermaid diagram"
                             /\ thrown.svgContent = << >>
                             /\ Display(thrown) = "error"
                    /\ s.effects[i].pc = "render" =>
                         LET thrown == afterRender(s, i, "throw")
                         IN  /\ thrown.error = "Error rendering mermaid diagram"
                             /\ thrown.svgContent = << >>
                             /\ Display(thrown) = "error"

\* the viewport shows the error panel for an invalid chart
C3_Witness ==
    /\ viewport["v1"].mounted
    /\ viewport["v1"].error = INVALID_MERMAID_CODE
    /\ viewport["v1"].svgContent = << >>
    /\ Display(viewport["v1"]) = "error"
    /\ viewport["v1"].chart = <<"pie">>

\* C4: once the chart prop of a mounted viewport stays at a chart that has
\* mermaid calls made for it, and the calls complete, the viewport from some
\* point on shows the outcome for that chart: its svg with no error, or an
\* error with no svg.
C4_LivePreview ==
    LET ShowsOutcome(s) ==
            /\ \A i \in DOMAIN s.effects : ~s.effects[i].isMounted
            /\ \/ s.svgContent = SvgOf(s.chart) /\ s.error = ""
               \/ s.error # "" /\ s.svgContent = << >>
    IN  \A c \in Charts :
            Trim(c) # << >> =>
                (<>[](viewport["v1"].mounted /\ viewport["v1"].chart = c)
                    => <>[]ShowsOutcome(viewport["v1"]))

\* the svg of a second chart replaced the svg of the first
C4_Witness ==
    /\ viewport["v1"].mounted
    /\ viewport["v1"].chart = <<"pie">>
    /\ viewport["v1"].svgContent = SvgOf(<<"pie">>)
    /\ viewport["v1"].error = ""
    /\ viewport["v1"].effects # << >>

\* C5: with two viewports on the page and every event delivered to the first,
\* the UI state of the second is what its own mount and its own chart give it.
C5_OtherInstanceUntouched ==
    LET s == viewport["v2"]
    IN  /\ s.zoom = ZOOM_UNIT /\ s.pan = Pt(0, 0)
        /\ ~s.isDragging /\ ~s.isPinching /\ ~s.isFullscreen
        /\ s.svgContent \in {<< >>, SvgOf(s.chart)}
        /\ s.error \in {"", INVALID_MERMAID_CODE, ERROR_RENDERING}

\* C6: a drag that starts at p0 while the diagram is drawn with pan offset P
\* sets, at each later move to p, pan = P + (p - p0), with the left mouse
\* button as with one finger, whatever the zoom factor and whether or not the
\* earlier move has been committed.
C6_PointerDeltaPanning ==
    \A v \in Viewports : \A p0 \in Points, p1 \in Points, p2 \in Points :
        LET Plus(p, q) == Pt(p.x + q.x, p.y + q.y)
            Minus(p, q) == Pt(p.x - q.x, p.y - q.y)
            s == viewport[v]
            P == s.stateRef.pan
            down == [button |-> 0, clientX |-> p0.x, clientY |-> p0.y]
            move1 == [button |-> 0, clientX |-> p1.x, clientY |-> p1.y]
            move2 == [button |-> 0, clientX |-> p2.x, clientY |-> p2.y]
            m1 == handleMouseMove(Commit(handleMouseDown(s, down)), move1)
            m2 == handleMouseMove(handleZoomIn(m1), move2)
            m3 == handleMouseMove(Commit(m1), move2)
            t1 == handleTouchMove(Commit(handleTouchStart(s, <<Touch(p0)>>)),
                                  <<Touch(p1)>>)
            t2 == handleTouchMove(handleWheel(t1, [ctrlKey |-> TRUE, deltaY |-> 1]),
                                  <<Touch(p2)>>)
            t3 == handleTouchMove(Commit(t1), <<Touch(p2)>>)
        IN  /\ m1.pan = Plus(P, Minus(p1, p0))
            /\ m2.pan = Plus(P, Minus(p2, p0))
            /\ m3.pan = Plus(P, Minus(p2, p0))
            /\ t1.pan = Plus(P, Minus(p1, p0))
            /\ t2.pan = Plus(P, Minus(p2, p0))
            /\ t3.pan = Plus(P, Minus(p2, p0))
            /\ m1.zoom = s.zoom /\ t1.zoom = s.zoom

\* a drag that started at (0,0) with pan (3,4) on screen, at a zoom other
\* than 1, has moved the pan
C6_Witness ==
    /\ viewport["v1"].isDragging
    /\ viewport["v1"].dragStart = Pt(-3, -4)
    /\ viewport["v1"].pan = Pt(0, 0)
    /\ viewport["v1"].zoom # ZOOM_UNIT

\* C7: a collapsed block shows the compact bar and nothing else, and a click
\* on the bar sets collapsed to "false"; the Collapse button of an expanded
\* block sets it to "true"; two toggles in a row restore collapsed.
C7_CollapseToggles ==
    HasBlock(editor) =>
        LET once == toggleCollapse(editor, blockUI)
            twice == toggleCollapse(once, render(once, blockUI))
        IN  /\ editor.block.props.collapsed = "true" =>
                /\ CollapsedView(blockUI)
                /\ ~TitleSection(blockUI) /\ ~Toolbar(blockUI)
                /\ ~ExamplesSection(blockUI) /\ ~CodeEditor(blockUI)
                /\ ~Preview(blockUI)
                /\ once.block.props.collapsed = "false"
            /\ editor.block.props.collapsed = "false" =>
                /\ ~CollapsedView(blockUI)
                /\ once.block.props.collapsed = "true"
            /\ twice.block.props.collapsed = editor.block.props.collapsed
            /\ twice.block.props = editor.block.props

\* a block collapsed with its editor open, in an editable editor
C7_Witness ==
    /\ HasBlock(editor)
    /\ editor.block.props.collapsed = "true"
    /\ blockUI.showEditor /\ ~blockUI.isReadOnly
    /\ editor.block.props.locked = "false"

\* C8: Download saves nothing while svgContent is empty, and
\* a step that saves a file saves exactly the svgContent of a viewport
\* whose diagram and toolbar are on screen, that svgContent is not empty, and
\* the step leaves every viewport (zoom, pan, svgContent, error) as it was.
C8_DownloadExportsSvg ==
    /\ [](\A v \in Viewports :
            viewport[v].svgContent = << >> =>
                handleDownload(viewport[v], page.downloads) = page.downloads)
    /\ [][page'.downloads # page.downloads =>
             /\ viewport' = viewport
             /\ \E v \in Viewports :
                   /\ ToolbarShown(viewport[v])
                   /\ viewport[v].svgContent # << >>
                   /\ page'.downloads =
                          Append(page.downloads, Blob(viewport[v].svgContent))]_vars

\* the svg on screen has been saved
C8_Witness ==
    /\ page.downloads = <<Blob(SvgOf(<<"graph">>))>>
    /\ viewport["v1"].svgContent = SvgOf(<<"graph">>)

\* C9: when no fullscreen request and no fullscreenchange event is pending,
\* isFullscreen of a mounted viewport is true exactly if the document has a
\* fullscreen element.
C9_FullscreenTracked ==
    page.requests = << >> /\ page.events = 0 =>
        \A v \in Viewports :
            viewport[v].mounted =>
                (viewport[v].isFullscreen <=> page.fullscreenElement # "none")

\* C10: the block that insertMermaid inserts has type "mermaid" and the props
\* data = the default flowchart, title = "Untitled Diagram", collapsed =
\* "false", locked = "false": it is expanded, unlocked, and its chart is not
\* blank.
C10_InsertedBlockDefaults ==
    [][~HasBlock(editor) /\ HasBlock(editor') =>
          /\ editor'.block.type = "mermaid"
          /\ editor'.block.props.data = DEFAULT_MERMAID_CODE
          /\ Head(editor'.block.props.data) = "flowchart"
          /\ editor'.block.props.title = "Untitled Diagram"
          /\ editor'.block.props.collapsed = "false"
          /\ editor'.block.props.locked = "false"
          /\ ~isCollapsed(blockUI') /\ ~isLocked(blockUI')
          /\ Preview(blockUI')
          /\ MermaidProps(blockUI').chart # << >>]_vars

\* the block as inserted
C10_Witness ==
    /\ HasBlock(editor)
    /\ editor.block.props.data = DEFAULT_MERMAID_CODE
    /\ editor.block.props.title = "Untitled Diagram"
    /\ editor.block.props.collapsed = "false"
    /\ editor.block.props.locked = "false"

\* C11: from an up-to-date render, onInputChange changes data alone,
\* onTitleChange title alone, toggleLock flips locked alone and toggleCollapse
\* flips collapsed alone; and no step of the block UI that changes locked or
\* collapsed changes data or title.
C11_UpdatesOwnProp ==
    /\ [](HasBlock(editor) /\ blockUI.block = editor.block =>
            LET props == editor.block.props
                Flip(b) == IF b = "true" THEN "false" ELSE "true"
                With(p) == [editor EXCEPT !.block.props = p]
            IN  /\ \A val \in CodeInputs :
                      onInputChange(editor, blockUI, val)
                          = With([props EXCEPT !.data = val])
                /\ \A val \in TitleInputs :
                      onTitleChange(editor, blockUI, val)
                          = With([props EXCEPT !.title = val])
                /\ toggleLock(editor, blockUI)
                      = With([props EXCEPT !.locked = Flip(props.locked)])
                /\ toggleCollapse(editor, blockUI)
                      = With([props EXCEPT !.collapsed = Flip(props.collapsed)]))
    /\ [][HasBlock(editor) =>
            LET old == editor.block.props
                new == editor'.block.props
            IN  /\ Cardinality({k \in DOMAIN old : new[k] # old[k]}) <= 1
                /\ new.locked # old.locked \/ new.collapsed # old.collapsed
                      => new.data = old.data /\ new.title = old.title]_vars

\* a block whose four props have all been changed, one update at a time
C11_Witness ==
    /\ HasBlock(editor)
    /\ editor.block.props.data = <<"graph", " ", "TD">>
    /\ editor.block.props.title = "My diagram"
    /\ editor.block.props.locked = "true"
    /\ editor.block.props.collapsed = "true"

\* C12: a step that takes a template (the panel closes and data changes)
\* happens only with the editor editable, the block unlocked and expanded and
\* the panel open; it sets data to the code of one of the cards on screen and
\* leaves title, locked, collapsed, showEditor and selectedCategory as they
\* were.
C12_TemplateClick ==
    [][HasBlock(editor) /\ blockUI.showExamples /\ ~blockUI'.showExamples
         /\ editor'.block.props.data # editor.block.props.data =>
            /\ editor.isEditable
            /\ editor.block.props.locked = "false"
            /\ editor.block.props.collapsed = "false"
            /\ \E i \in ExampleCards(blockUI) :
                  editor'.block.props.data = MERMAID_EXAMPLES[i].code
            /\ editor'.block.props.title = editor.block.props.title
            /\ editor'.block.props.locked = editor.block.props.locked
            /\ editor'.block.props.collapsed = editor.block.props.collapsed
            /\ blockUI'.showEditor = blockUI.showEditor
            /\ blockUI'.selectedCategory = blockUI.selectedCategory]_vars

\* C13: a run of the render effect whose result may still be written belongs
\* to a mounted viewport and to its current chart; a run started for an
\* earlier chart, or one of an unmounted viewport, writes nothing whatever it
\* answers; and a step changes svgContent or error of a viewport only while
\* it is mounted, to clear them for a blank chart or to store the outcome of
\* its current chart.
C13_StaleResultsDiscarded ==
    /\ [](\A v \in Viewports :
            LET s == viewport[v]
            IN  \A i \in DOMAIN s.effects :
                    /\ s.effects[i].isMounted =>
                          s.mounted /\ s.effects[i].chart = s.chart
                    /\ ~s.effects[i].isMounted /\ s.effects[i].pc = "parse" =>
                          \A o \in ParseOutcomes :
                              /\ afterParse(s, i, o).svgContent = s.svgContent
                              /\ afterParse(s, i, o).error = s.error
                    /\ ~s.effects[i].isMounted /\ s.effects[i].pc = "render" =>
                          \A o \in RenderOutcomes :
                              /\ afterRender(s, i, o).svgContent = s.svgContent
                              /\ afterRender(s, i, o).error = s.error)
    /\ [][\A v \in Viewports :
            viewport'[v].svgContent # viewport[v].svgContent
                \/ viewport'[v].error # viewport[v].error =>
                    /\ viewport[v].mounted
                    /\ \/ Trim(viewport'[v].chart) = << >>
                       \/ /\ viewport'[v].chart = viewport[v].chart
                          /\ viewport'[v].svgContent
                                 \in {<< >>, SvgOf(viewport[v].chart)}]_vars

\* the svg of the current chart is on screen while the render call of an
\* earlier chart is still pending
C13_Witness ==
    LET s == viewport["v1"]
    IN  /\ s.mounted /\ s.chart = <<"graph">>
        /\ s.svgContent = SvgOf(<<"graph">>)
        /\ \E i \in DOMAIN s.effects :
              /\ ~s.effects[i].isMounted
              /\ s.effects[i].chart = <<"pie">>
              /\ s.effects[i].pc = "render"

\* C14: whenever the diagram of a viewport is on screen, the touch and wheel
\* listeners are attached to the diagram area that is on screen.
C14_ListenersAttached ==
    \A v \in Viewports : Displayed(viewport[v]) => ListenersLive(viewport[v])

\* C15: in a pinch that started at finger distance d0 with zoom z, where no
\* step clamps and the quotients are exact, two touchmove events to distances
\* d1 and d2 leave zoom = z * d2 / d0, whether or not a commit has refreshed
\* stateRef.current.lastPinchDistance between them.
C15_PinchZoomProduct ==
    \A v \in Viewports : \A t1 \in TouchLists, t2 \in TouchLists :
        LET s == viewport[v]
            d0 == s.stateRef.lastPinchDistance
            d1 == getTouchDistance(t1)
            d2 == getTouchDistance(t2)
            InRange(z) == ZOOM_MIN <= z /\ z <= ZOOM_MAX
            m1 == handleTouchMove(s, t1)
            refreshed == handleTouchMove(Commit(m1), t2)
            notRefreshed == handleTouchMove(m1, t2)
        IN  /\ ListenersLive(s)
            /\ s.isPinching /\ s.stateRef.isPinching
            /\ s.lastPinchDistance = d0 /\ d0 > 0
            /\ Len(t1) = 2 /\ Len(t2) = 2 /\ d1 > 0 /\ d2 > 0
            /\ (s.zoom * d1) % d0 = 0 /\ (s.zoom * d2) % d0 = 0
            /\ InRange(PinchZoomUnclamped(s.zoom, d1, d0))
            /\ InRange(PinchZoomUnclamped(s.zoom, d2, d0))
            /\ InRange(PinchZoomUnclamped(m1.zoom, d2, d0))
            => /\ refreshed.zoom = (s.zoom * d2) \div d0
               /\ notRefreshed.zoom = (s.zoom * d2) \div d0

\* C16: in every state of a viewport, isDragging and isPinching are not both
\* true.
C16_PanOrPinch ==
    \A v \in Viewports : ~(viewport[v].isDragging /\ viewport[v].isPinching)

\* C17: two updates of different props made from the same render, with no
\* render of the block between them, are both present in the props of the
\* block afterwards.
C17_NoLostUpdate ==
    HasBlock(editor) /\ blockUI.block = editor.block =>
        \A val \in TitleInputs, code \in CodeInputs :
            LET locked == toggleLock(editor, blockUI)
                lockedThenTitle == onTitleChange(locked, blockUI, val)
                typed == onInputChange(editor, blockUI, code)
                typedThenCollapsed == toggleCollapse(typed, blockUI)
                titled == onTitleChange(editor, blockUI, val)
                titledThenTyped == onInputChange(titled, blockUI, code)
            IN  /\ lockedThenTitle.block.props.title = val
                /\ lockedThenTitle.block.props.locked = locked.block.props.locked
                /\ typedThenCollapsed.block.props.data = code
                /\ typedThenCollapsed.block.props.collapsed
                       # editor.block.props.collapsed
                /\ titledThenTyped.block.props.title = val
                /\ titledThenTyped.block.props.data = code

\* C18: while the editor is not editable and the block is rendered read-only,
\* no step of the block UI changes the props of the block, expanded or
\* collapsed.
C18_ReadOnlyNoUpdate ==
    [][HasBlock(editor) /\ ~editor.isEditable /\ blockUI.isReadOnly =>
          editor'.block.props = editor.block.props]_vars

\* C19: in every render made while editor.isEditable is false, the title
\* section, the toolbar, the template panel and the code editor are not on
\* screen and the viewport gets showToolbar = false.
C19_ReadOnlyPresentation ==
    HasBlock(editor) /\ ~editor.isEditable =>
        /\ ~TitleSection(blockUI) /\ ~Toolbar(blockUI)
        /\ ~ExamplesSection(blockUI) /\ ~CodeEditor(blockUI)
        /\ ~MermaidProps(blockUI).showToolbar

\* C20: no state has locked = "true" together with an active title input.
C20_LockedNoTitleInput ==
    HasBlock(editor) /\ editor.block.props.locked = "true" =>
        ~blockUI.isEditingTitle

\* C21: in every state of a viewport, svgContent and error are not both
\* non-empty, and a blank chart leaves both empty.
C21_SvgOrError ==
    \A v \in Viewports :
        /\ ~(viewport[v].svgContent # << >> /\ viewport[v].error # "")
        /\ viewport[v].mounted /\ Trim(viewport[v].chart) = << >> =>
              viewport[v].svgContent = << >> /\ viewport[v].error = ""

\* a render that threw has left the error alone on screen, while a run for
\* the chart before is still pending
C21_Witness ==
    LET s == viewport["v1"]
    IN  /\ s.mounted /\ s.chart = <<"pie">>
        /\ s.svgContent = << >> /\ s.error = ERROR_RENDERING
        /\ \E i \in DOMAIN s.effects : s.effects[i].chart = <<"graph">>

\* C22: a mounted viewport with a blank chart shows the placeholder, whatever
\* error and svgContent are; with a chart that is not blank it shows the error
\* panel if error is not empty and the diagram container otherwise; the
\* toolbar is on screen, and its Download and Fullscreen buttons act, only
\* with the diagram container.
C22_DisplayPrecedence ==
    /\ [](\A v \in Viewports :
            LET s == viewport[v]
                blank == \A k \in DOMAIN s.chart : s.chart[k] \in Whitespace
            IN  s.mounted =>
                  /\ blank =>
                        \A e \in {"", INVALID_MERMAID_CODE, ERROR_RENDERING},
                           svg \in {<< >>, SvgOf(<<"graph">>)} :
                            Display([s EXCEPT !.error = e, !.svgContent = svg])
                                = "placeholder"
                  /\ ~blank /\ s.error # "" => Display(s) = "error"
                  /\ ~blank /\ s.error = "" => Display(s) = "diagram"
                  /\ ToolbarShown(s) => Display(s) = "diagram")
    /\ [][page'.downloads # page.downloads
            \/ Len(page'.requests) > Len(page.requests) =>
                \E v \in Viewports :
                    /\ viewport[v].mounted /\ viewport[v].showToolbar
                    /\ Trim(viewport[v].chart) # << >>
                    /\ viewport[v].error = ""]_vars

\* a viewport whose chart became whitespace after its diagram was saved
C22_Witness ==
    /\ viewport["v1"].mounted
    /\ viewport["v1"].chart = <<" ">>
    /\ Display(viewport["v1"]) = "placeholder"
    /\ page.downloads # << >>

\* C23: a mouse move while isDragging is false leaves pan as it is, and so
\* does a mouse move that follows a mouseup or a mouseleave; mouseup and
\* mouseleave set isDragging to false and change neither pan nor zoom.
C23_NoPanWithoutDrag ==
    \A v \in Viewports : \A e \in MouseEvents :
        LET s == viewport[v]
            up == Commit(handleMouseUp(s))
            leave == handleMouseUp(s)
        IN  /\ ~up.isDragging /\ up.pan = s.pan /\ up.zoom = s.zoom
            /\ ~leave.isDragging /\ leave.pan = s.pan /\ leave.zoom = s.zoom
            /\ handleMouseMove(up, e).pan = up.pan
            /\ handleMouseMove(leave, e).pan = leave.pan
            /\ ~s.isDragging => handleMouseMove(s, e).pan = s.pan

\* C24: from every state of a viewport Reset View gives zoom = 1 and
\* pan = (0, 0), a second Reset View changes nothing more, and svgContent,
\* error and isFullscreen are as before.
C24_ResetView ==
    \A v \in Viewports :
        LET s == viewport[v]
            once == Commit(handleResetView(s))
            twice == Commit(handleResetView(once))
        IN  /\ once.zoom = ZOOM_UNIT /\ once.pan = Pt(0, 0)
            /\ twice = once
            /\ once.svgContent = s.svgContent /\ once.error = s.error
            /\ once.isFullscreen = s.isFullscreen
            /\ once.isDragging = s.isDragging /\ once.dragStart = s.dragStart
            /\ once.isPinching = s.isPinching
            /\ once.lastPinchDistance = s.lastPinchDistance

\* the view was reset after a drag that had started with the pan at (3,4)
\* and a pinch that had changed the zoom
C24_Witness ==
    /\ viewport["v1"].zoom = ZOOM_UNIT
    /\ viewport["v1"].pan = Pt(0, 0)
    /\ viewport["v1"].dragStart = Pt(-3, -4)
    /\ viewport["v1"].isDragging /\ viewport["v1"].isPinching
    /\ viewport["v1"].lastPinchDistance = 10

\* C25: Zoom In takes zoom z to z + 0.25, or to 3 if that is more than 3, and
\* Zoom Out takes z to z - 0.25, or to 0.25 if that is less; neither changes
\* pan; Zoom In at 3 and Zoom Out at 0.25 change nothing.
C25_ZoomButtons ==
    \A v \in Viewports :
        LET s == viewport[v]
            quarter == ZOOM_UNIT \div 4
            in == handleZoomIn(s)
            out == handleZoomOut(s)
        IN  /\ in.zoom = IF s.zoom + quarter > 3 * ZOOM_UNIT
                         THEN 3 * ZOOM_UNIT ELSE s.zoom + quarter
            /\ out.zoom = IF s.zoom - quarter < quarter
                          THEN quarter ELSE s.zoom - quarter
            /\ in.pan = s.pan /\ out.pan = s.pan
            /\ s.zoom = 3 * ZOOM_UNIT => in = s
            /\ s.zoom = quarter => out = s

\* zoomed out to 0.25 with the diagram panned
C25_Witness ==
    /\ viewport["v1"].zoom = ZOOM_MIN
    /\ viewport["v1"].pan = Pt(3, 4)
    /\ ~viewport["v1"].isPinching

C28_DistinctRenderIds ==
    \A v \in Viewports, w \in Viewports :
        \A i \in DOMAIN viewport[v].effects, j \in DOMAIN viewport[w].effects :
            /\ viewport[v].effects[i].pc = "render"
            /\ viewport[w].effects[j].pc = "render"
            /\ <<v, i>> # <<w, j>>
            => viewport[v].effects[i].renderId # viewport[w].effects[j].renderId

====
